---- MODULE Spec2Model ----
(***************************************************************************)
(* Model of cineca-choice-helper (src/main.py): the interactive selection  *)
(* pipeline (get_degree, get_course_catalogue), the selector               *)
(* (_select_with_des), the flattener (_serialize_course_choices) and the   *)
(* exporter (save_to_xlsx).                                                *)
(*                                                                         *)
(* JSON scalars are represented by TLC strings.  Python compares str keys  *)
(* lexicographically by code point; CodePoints gives the code points of    *)
(* the semester labels that occur in the modelled catalogue.               *)
(*                                                                         *)
(* The thread of control is cut at its blocking calls: an HTTP response    *)
(* arriving, the user answering a prompt, a call into the Excel writer.    *)
(* Not part of the state: the academic year (it only parameterises the     *)
(* two URLs) and the column widths computed in save_to_xlsx.               *)
(***************************************************************************)
EXTENDS Integers, Sequences, FiniteSets, TLC

VARIABLES
    pc,           \* position of the single thread of control
    lang,         \* args.lang
    university,   \* Config.university
    prompt,       \* the inquirer prompt the user is looking at, or NoPrompt
    options,      \* _select_with_des: the options of the call in progress
    choice,       \* _select_with_des: the display string the user chose last
    selected,     \* the object the last _select_with_des returned, or None
    gruppi,       \* get_degree: the listing response
    cod,          \* main: the course code returned by get_degree
    courses,      \* get_course_catalogue: the selected study path (percorso)
    serialized,   \* the rows of the DataFrame returned by _serialize_course_choices
    col,          \* save_to_xlsx: number of columns already sized
    handle,       \* the ExcelWriter's file handle: "none", "open", "closed"
    file,         \* what is at args.filename: "absent", "truncated", "partial", "complete"
    stdout,       \* the lines printed
    stderr,       \* what the interpreter wrote about an uncaught exception
    exit_code     \* the exit status of the process, -1 while it runs

selv == <<prompt, options, choice, selected>>
datav == <<gruppi, cod, courses, serialized>>
filev == <<col, handle, file>>
outv == <<stdout, stderr, exit_code>>
vars == <<pc, lang, university, selv, datav, filev, outv>>

----------------------------------------------------------------------------
(* Bounds of the modelled inputs *)

\* total number of nodes (years + teachings + activities) of a study path
MaxSize == 6

\* total number of nodes (groups + departments + courses + sub-codes) of a listing
MaxListing == 5

\* total number of nodes (study paths + years + teachings + activities) of a detail
MaxDetail == 3

----------------------------------------------------------------------------
(* Constants of the program *)

UNIVERSITIES == <<"unitn">>

LANGS == {"en", "it"}

cineca_base_url(path) == "https://" \o university \o ".coursecatalogue.cineca.it/" \o path

COURSE_PATH_TEMPLATE(activity) ==
    "insegnamenti/" \o activity["aa"] \o "/" \o activity["cod"] \o "/"
        \o activity["ordinamento_aa"] \o "/" \o activity["corso_percorso_id"]
        \o "/" \o activity["corso_cod"]

Keys(l) ==
    [des |-> "des_" \o l,
     label |-> "label_" \o l,
     periodo_didattico |-> "periodo_didattico_" \o l]

keys == Keys(lang)

\* dict.get(key, default)
Get(d, key, default) == IF key \in DOMAIN d THEN d[key] ELSE default

----------------------------------------------------------------------------
(* Python str ordering: lexicographic on code points *)

CodePoints ==
    ("" :> << >>) @@ ("1" :> <<49>>) @@ ("2" :> <<50>>) @@ ("10" :> <<49, 48>>)

RECURSIVE LexLess(_, _)
LexLess(s, t) ==
    IF t = << >> THEN FALSE
    ELSE IF s = << >> THEN TRUE
    ELSE IF Head(s) # Head(t) THEN Head(s) < Head(t)
    ELSE LexLess(Tail(s), Tail(t))

\* a < b for two Python strings
StrLess(a, b) == LexLess(CodePoints[a], CodePoints[b])

----------------------------------------------------------------------------
(* list.sort(key=lambda a: a["Semester"]): a stable sort with < on the keys *)

\* an insertion that puts x before the elements of equal key (a faulty variant of InsertStable)
RECURSIVE InsertBeforeEqual(_, _)
InsertBeforeEqual(sorted, x) ==
    IF sorted = << >> THEN <<x>>
    ELSE IF ~StrLess(Head(sorted)["Semester"], x["Semester"])
         THEN <<x>> \o sorted
         ELSE <<Head(sorted)>> \o InsertBeforeEqual(Tail(sorted), x)

\* insertion of x after every element whose key is not greater than x's
RECURSIVE InsertStable(_, _)
InsertStable(sorted, x) ==
    IF sorted = << >> THEN <<x>>
    ELSE IF StrLess(x["Semester"], Head(sorted)["Semester"])
         THEN <<x>> \o sorted
         ELSE <<Head(sorted)>> \o InsertStable(Tail(sorted), x)

\* the list left as it was built (a faulty variant of SortBySemester)
SortOmitted(rows) == rows

RECURSIVE SortFrom(_, _)
SortFrom(sorted, rest) ==
    IF rest = << >> THEN sorted
    ELSE SortFrom(InsertStable(sorted, Head(rest)), Tail(rest))

SortBySemester(rows) == SortFrom(<< >>, rows)

----------------------------------------------------------------------------
(* CourseChooser._serialize_course_choices *)

\* a placeholder with empty Name and Link (a faulty variant of PlaceholderRow)
PlaceholderRowBlank(year, teaching) ==
    [Year |-> year["anno"],
     Teaching |-> teaching[keys.label],
     Semester |-> "",
     CFU |-> "",
     Name |-> "",
     Link |-> ""]

PlaceholderRow(year, teaching) ==
    [Year |-> year["anno"],
     Teaching |-> teaching[keys.label],
     Semester |-> "",
     CFU |-> "",
     Name |-> "N/A",
     Link |-> "N/A"]

ActivityRow(year, teaching, activity) ==
    LET link == cineca_base_url(COURSE_PATH_TEMPLATE(activity))
    IN [Year |-> year["anno"],
        Teaching |-> teaching[keys.label],
        Semester |-> Get(activity, keys.periodo_didattico, ""),
        CFU |-> activity["crediti"],
        Name |-> activity[keys.des],
        Link |-> "=HYPERLINK(\"" \o link \o "\", \"" \o activity["cod"] \o "\")"]

\* the activities only, no placeholder (a faulty variant of Intermidiate)
IntermidiateActivitiesOnly(year, teaching) ==
    LET attivita == teaching["attivita"]
    IN SortBySemester([i \in 1..Len(attivita) |-> ActivityRow(year, teaching, attivita[i])])

\* the list "intermidiate" of one teaching, after the sort
Intermidiate(year, teaching) ==
    LET attivita == teaching["attivita"]
        placeholder == IF attivita = << >>
                       THEN <<PlaceholderRow(year, teaching)>>
                       ELSE << >>
        rows == [i \in 1..Len(attivita) |-> ActivityRow(year, teaching, attivita[i])]
    IN SortBySemester(placeholder \o rows)

RECURSIVE SerializeTeachings(_, _)
SerializeTeachings(year, insegnamenti) ==
    IF insegnamenti = << >> THEN << >>
    ELSE Intermidiate(year, Head(insegnamenti))
             \o SerializeTeachings(year, Tail(insegnamenti))

RECURSIVE SerializeYears(_)
SerializeYears(anni) ==
    IF anni = << >> THEN << >>
    ELSE SerializeTeachings(Head(anni), Head(anni)["insegnamenti"])
             \o SerializeYears(Tail(anni))

\* one sort of the whole table instead of one per teaching
\* (a faulty variant of _serialize_course_choices)
SerializeSortedGlobally(percorso) == SortBySemester(SerializeYears(percorso["anni"]))

_serialize_course_choices(percorso) == SerializeYears(percorso["anni"])

----------------------------------------------------------------------------
(* The catalogue data a run can receive: study paths                       *)

Activity(code, des_it, des_en, crediti) ==
    [aa |-> "2024", cod |-> code, ordinamento_aa |-> "2023",
     corso_percorso_id |-> "10117", corso_cod |-> "0514G",
     crediti |-> crediti, des_it |-> des_it, des_en |-> des_en]

\* Activities are not required to declare a semester
WithPeriodo(activity, periodo) ==
    activity @@ ("periodo_didattico_it" :> periodo)
             @@ ("periodo_didattico_en" :> periodo)

Activities ==
    { WithPeriodo(Activity("145001", "Analisi A", "Calculus A", "6"), "2"),
      WithPeriodo(Activity("145002", "Analisi B", "Calculus B", "3"), "1"),
      WithPeriodo(Activity("145003", "Fisica", "Physics", "12"), "10"),
      WithPeriodo(Activity("145004", "Geometria", "Geometry", "6"), "2"),
      Activity("145005", "Tirocinio", "Internship", "9") }

Labels ==
    { [label_it |-> "Analisi I", label_en |-> "Calculus I"],
      [label_it |-> "A scelta", label_en |-> "Elective"] }

\* the table <<f[1], ..., f[n]>>
RECURSIVE Tabulate(_, _)
Tabulate(f, n) == IF n = 0 THEN << >> ELSE Append(Tabulate(f, n - 1), f[n])

\* the table whose entry m + 1 is the set of the sequences of elements of
\* sized[1], sized[2], ... whose sizes add up to m, for m in 0..n
RECURSIVE SeqsByTotal(_, _)
SeqsByTotal(sized, n) ==
    IF n = 0 THEN << { << >> } >>
    ELSE LET shorter == SeqsByTotal(sized, n - 1)
         IN Append(shorter,
                   UNION { { <<x>> \o r : x \in sized[k], r \in shorter[n - k + 1] }
                           : k \in 1..n })

\* the sequences of elements of sized[1], sized[2], ... whose sizes add up to
\* at most n
SeqsUpToTotal(sized, n) ==
    LET table == SeqsByTotal(sized, n) IN UNION { table[m] : m \in 1..(n + 1) }

\* entry k: the teachings of k nodes, that is of k - 1 activities
Teachings(max) ==
    Tabulate([k \in 1..max |->
                 { l @@ ("attivita" :> a) :
                       l \in Labels, a \in [1..(k - 1) -> Activities] }], max)

\* entry k: the teaching lists of a year block of k nodes
Insegnamenti(max) ==
    IF max = 0 THEN << >> ELSE SeqsByTotal(Teachings(max), max - 1)

Percorso(des_it, des_en, ins) ==
    [des_it |-> des_it, des_en |-> des_en,
     anni |-> [i \in 1..Len(ins) |-> [anno |-> i, insegnamenti |-> ins[i]]]]

\* the study paths of at most MaxSize nodes
StudyPaths ==
    { Percorso("Percorso comune", "Common path", ins) :
          ins \in SeqsUpToTotal(Insegnamenti(MaxSize), MaxSize) }

----------------------------------------------------------------------------
(* The catalogue data a run can receive: the listing and the course detail *)

Des ==
    { [des_it |-> "Laurea", des_en |-> "Bachelor"],
      [des_it |-> "Laurea Magistrale", des_en |-> "Master"] }

Cods == { "0514G", "0117H" }

\* entry k: the sub-codes, courses, departments and degree types of k nodes
CdsSub == Tabulate([k \in 1..MaxListing |->
                       IF k = 1 THEN { [cod |-> c] : c \in Cods } ELSE { }], MaxListing)

Cds ==
    LET lists == SeqsByTotal(CdsSub, MaxListing)
    IN Tabulate([k \in 1..MaxListing |->
                    { d @@ ("cdsSub" :> x) : d \in Des, x \in lists[k] }], MaxListing)

Subgroups ==
    LET lists == SeqsByTotal(Cds, MaxListing)
    IN Tabulate([k \in 1..MaxListing |->
                    { d @@ ("cds" :> x) : d \in Des, x \in lists[k] }], MaxListing)

Groups ==
    LET lists == SeqsByTotal(Subgroups, MaxListing)
    IN Tabulate([k \in 1..MaxListing |->
                    { d @@ ("subgroups" :> x) : d \in Des, x \in lists[k] }], MaxListing)

\* the bodies api/v1/corsi can answer with
Listings == SeqsUpToTotal(Groups, MaxListing)

\* entry k: the study paths of k nodes, the path included
Percorsi ==
    LET lists == SeqsByTotal(Insegnamenti(MaxDetail), MaxDetail)
    IN Tabulate([k \in 1..MaxDetail |->
                    { Percorso(d.des_it, d.des_en, ins) : d \in Des, ins \in lists[k] }],
                MaxDetail)

\* the values of "percorsi" api/v1/corso/{aa}/{corso_cod} can answer with
CoursePaths == SeqsUpToTotal(Percorsi, MaxDetail)

----------------------------------------------------------------------------
(* The run *)

None == [none |-> TRUE]

NoPrompt == [shown |-> FALSE, message |-> "", choices |-> << >>]

\* what requests.get(...).json() raises when the fetch fails
FetchErrors == { "ConnectionError", "Timeout", "HTTPError body: JSONDecodeError" }

\* what pd.ExcelWriter, to_excel and set_column raise when the write fails
WriteErrors == { "OSError" }

\* an exception nobody catches: the interpreter prints the traceback and exits 1
Uncaught(e) ==
    /\ pc' = "exit"
    /\ stderr' = <<"Traceback (most recent call last):", e>>
    /\ exit_code' = 1
    /\ UNCHANGED stdout

\* _select_with_des, lines 66-67: the display strings are shown and the call blocks
list_input(message, opts) ==
    /\ prompt' = [shown |-> TRUE, message |-> message,
                  choices |-> [i \in 1..Len(opts) |-> opts[i][keys.des]]]
    /\ options' = opts

\* a dict keyed by display string, which keeps the last option of each string
\* (a faulty variant of _select_with_des)
SelectLastWithDes(opts, ch) ==
    opts[CHOOSE i \in 1..Len(opts) :
            /\ opts[i][keys.des] = ch
            /\ \A j \in (i + 1)..Len(opts) : opts[j][keys.des] # ch]

\* _select_with_des, line 69: next(o for o in options if o[des] == choice)
_select_with_des(opts, ch) ==
    opts[CHOOSE i \in 1..Len(opts) :
            /\ opts[i][keys.des] = ch
            /\ \A j \in 1..(i - 1) : opts[j][keys.des] # ch]

Init ==
    /\ pc = "select_university"
    /\ lang \in LANGS
    /\ university = ""
    /\ prompt = [shown |-> TRUE, message |-> "Select your University",
                 choices |-> UNIVERSITIES]
    /\ options = << >>
    /\ choice = ""
    /\ selected = None
    /\ gruppi = << >>
    /\ cod = ""
    /\ courses = None
    /\ serialized = << >>
    /\ col = 0
    /\ handle = "none"
    /\ file = "absent"
    /\ stdout = << >>
    /\ stderr = << >>
    /\ exit_code = -1

\* Config._select_university, CourseChooser.__init__, and get_degree up to the
\* listing request
_select_university ==
    /\ pc = "select_university"
    /\ \E i \in 1..Len(prompt.choices) : university' = prompt.choices[i]
    /\ prompt' = NoPrompt
    /\ stdout' = Append(stdout, "NOTE: if you don't know what to answer")
    /\ pc' = "fetch_corsi"
    /\ UNCHANGED <<lang, options, choice, selected, datav, filev, stderr, exit_code>>

\* get_degree, lines 47-53: the listing arrives, or the fetch raises
get_degree_fetch ==
    /\ pc = "fetch_corsi"
    /\ \/ /\ \E e \in FetchErrors : Uncaught(e)
          /\ UNCHANGED <<selv, gruppi>>
       \/ /\ \E body \in Listings :
                /\ gruppi' = body
                /\ list_input("Select the Degree type", body)
          /\ pc' = "select_group"
          /\ UNCHANGED <<choice, selected, outv>>
    /\ UNCHANGED <<lang, university, cod, courses, serialized, filev>>

\* a prompt without choices: inquirer raises on the answer, or what it returns
\* matches no option and next() raises
select_from_nothing ==
    /\ pc \in {"select_group", "select_department", "select_course", "select_path"}
    /\ prompt.choices = << >>
    /\ \E e \in {"IndexError", "StopIteration"} : Uncaught(e)
    /\ prompt' = NoPrompt
    /\ UNCHANGED <<lang, university, options, choice, selected, datav, filev>>

\* get_degree, lines 53-54: the degree type is chosen, the departments are shown
select_group ==
    /\ pc = "select_group"
    /\ \E i \in 1..Len(prompt.choices) :
          LET group == _select_with_des(options, prompt.choices[i])
          IN /\ choice' = prompt.choices[i]
             /\ selected' = group
             /\ list_input("Select Department", group["subgroups"])
    /\ pc' = "select_department"
    /\ UNCHANGED <<lang, university, datav, filev, outv>>

\* get_degree, lines 54-55: the department is chosen, the courses are shown
select_department ==
    /\ pc = "select_department"
    /\ \E i \in 1..Len(prompt.choices) :
          LET department == _select_with_des(options, prompt.choices[i])
          IN /\ choice' = prompt.choices[i]
             /\ selected' = department
             /\ list_input("Select Course", department["cds"])
    /\ pc' = "select_course"
    /\ UNCHANGED <<lang, university, datav, filev, outv>>

\* a course without sub-code sends the user back to the departments
\* (a faulty variant of select_course)
select_course_or_back ==
    /\ pc = "select_course"
    /\ \E i \in 1..Len(prompt.choices) :
          LET course == _select_with_des(options, prompt.choices[i])
          IN /\ choice' = prompt.choices[i]
             /\ selected' = course
             /\ IF course["cdsSub"] = << >>
                THEN /\ pc' = "select_department"
                     /\ list_input("Select Department", gruppi[1]["subgroups"])
                     /\ UNCHANGED <<gruppi, cod>>
                ELSE /\ cod' = course["cdsSub"][1]["cod"]
                     /\ gruppi' = << >>
                     /\ pc' = "fetch_corso"
                     /\ prompt' = NoPrompt
                     /\ options' = << >>
    /\ UNCHANGED <<lang, university, courses, serialized, filev, outv>>

\* get_degree, line 55, and get_course_catalogue up to the detail request: the
\* course is chosen and its first sub-code is the code asked for
select_course ==
    /\ pc = "select_course"
    /\ \E i \in 1..Len(prompt.choices) :
          LET course == _select_with_des(options, prompt.choices[i])
          IN /\ choice' = prompt.choices[i]
             /\ selected' = course
             /\ IF course["cdsSub"] = << >>
                THEN /\ Uncaught("IndexError")
                     /\ UNCHANGED <<gruppi, cod>>
                ELSE /\ cod' = course["cdsSub"][1]["cod"]
                     /\ gruppi' = << >>
                     /\ pc' = "fetch_corso"
                     /\ UNCHANGED outv
    /\ prompt' = NoPrompt
    /\ options' = << >>
    /\ UNCHANGED <<lang, university, courses, serialized, filev>>

\* get_course_catalogue, lines 58-62: the detail arrives and the study paths
\* are shown, or the fetch raises, or the body has no "percorsi"
get_course_catalogue_fetch ==
    /\ pc = "fetch_corso"
    /\ \/ /\ \E e \in FetchErrors \cup {"KeyError"} : Uncaught(e)
          /\ UNCHANGED selv
       \/ /\ \E course_paths \in CoursePaths :
                list_input("Select the study path", course_paths)
          /\ pc' = "select_path"
          /\ UNCHANGED <<choice, selected, outv>>
    /\ UNCHANGED <<lang, university, datav, filev>>

\* get_course_catalogue, line 62: the study path is chosen
select_path ==
    /\ pc = "select_path"
    /\ \E i \in 1..Len(prompt.choices) :
          /\ choice' = prompt.choices[i]
          /\ selected' = _select_with_des(options, prompt.choices[i])
          /\ courses' = _select_with_des(options, prompt.choices[i])
    /\ prompt' = NoPrompt
    /\ options' = << >>
    /\ pc' = "serialize"
    /\ UNCHANGED <<lang, university, gruppi, cod, serialized, filev, outv>>

\* get_course_catalogue, line 63: the flattener is applied to the selected
\* study path and the DataFrame is handed to save_to_xlsx
serialize ==
    /\ pc = "serialize"
    /\ serialized' = _serialize_course_choices(courses)
    /\ pc' = "save"
    /\ UNCHANGED <<lang, university, selv, gruppi, cod, courses, filev, outv>>

----------------------------------------------------------------------------
(* save_to_xlsx *)

COLUMNS == <<"Year", "Teaching", "Semester", "CFU", "Name", "Link">>

\* the columns of pd.DataFrame(serialized): none when there is no row
Columns(rows) == IF rows = << >> THEN << >> ELSE COLUMNS

\* ExcelWriter.__exit__ after an exception in the with block: the writer is
\* closed, which saves whatever the workbook holds to the opened file
exit_on_error(e) ==
    /\ handle' = "closed"
    /\ file' \in {"truncated", "partial"}
    /\ Uncaught(e)
    /\ UNCHANGED col

\* line 107: pd.ExcelWriter(filename) opens the file for writing
ExcelWriter_open ==
    /\ pc = "save"
    /\ \/ /\ \E e \in WriteErrors : Uncaught(e)
          /\ UNCHANGED filev
       \/ /\ handle' = "open"
          /\ file' = "truncated"
          /\ col' = 0
          /\ pc' = "to_excel"
          /\ UNCHANGED outv
    /\ UNCHANGED <<lang, university, selv, datav>>

\* line 108: df.to_excel(writer, sheet_name="Sheet1", index=False)
to_excel ==
    /\ pc = "to_excel"
    /\ \/ \E e \in WriteErrors : exit_on_error(e)
       \/ /\ pc' = "set_column"
          /\ UNCHANGED <<filev, outv>>
    /\ UNCHANGED <<lang, university, selv, datav>>

\* lines 109-112: one column of the sheet is sized
set_column ==
    /\ pc = "set_column"
    /\ col < Len(Columns(serialized))
    /\ \/ \E e \in WriteErrors \cup {"AttributeError"} : exit_on_error(e)
       \/ /\ col' = col + 1
          /\ UNCHANGED <<pc, handle, file, outv>>
    /\ UNCHANGED <<lang, university, selv, datav>>

\* lines 107 and 114: the with block ends, ExcelWriter.__exit__ saves and closes
\* the file, and the completion is printed
ExcelWriter_exit ==
    /\ pc = "set_column"
    /\ col = Len(Columns(serialized))
    /\ \/ \E e \in WriteErrors : exit_on_error(e)
       \/ /\ handle' = "closed"
          /\ file' = "complete"
          /\ stdout' = Append(stdout, "Courses saved into filename.")
          /\ pc' = "exit"
          /\ exit_code' = 0
          /\ UNCHANGED <<col, stderr>>
    /\ UNCHANGED <<lang, university, selv, datav>>

Next ==
    \/ _select_university
    \/ get_degree_fetch
    \/ select_from_nothing
    \/ select_group
    \/ select_department
    \/ select_course
    \/ get_course_catalogue_fetch
    \/ select_path
    \/ serialize
    \/ ExcelWriter_open
    \/ to_excel
    \/ set_column
    \/ ExcelWriter_exit

Spec == Init /\ [][Next]_vars

\* the flattener on every study path of the bounded catalogue: the run at line 63
InitFlatten ==
    /\ pc = "serialize"
    /\ lang \in LANGS
    /\ university = UNIVERSITIES[1]
    /\ prompt = NoPrompt
    /\ options = << >>
    /\ courses \in StudyPaths
    /\ choice = courses[keys.des]
    /\ selected = courses
    /\ gruppi = << >>
    /\ cod = "0514G"
    /\ serialized = << >>
    /\ col = 0
    /\ handle = "none"
    /\ file = "absent"
    /\ stdout = <<"NOTE: if you don't know what to answer">>
    /\ stderr = << >>
    /\ exit_code = -1

NextFlatten == serialize

SpecFlatten == InitFlatten /\ [][NextFlatten]_vars

----------------------------------------------------------------------------
(* Claims about the flattener, checked under SpecFlatten *)

Flattened == pc = "save"

\* the teachings of a study path in API order, each with its year block
RECURSIVE UnitsOf(_)
UnitsOf(anni) ==
    IF anni = << >> THEN << >>
    ELSE [i \in 1..Len(Head(anni)["insegnamenti"]) |->
             [year |-> Head(anni), teaching |-> Head(anni)["insegnamenti"][i]]]
         \o UnitsOf(Tail(anni))

Units == UnitsOf(courses["anni"])

Max(a, b) == IF a >= b THEN a ELSE b

\* the rows the first k teachings are due: the sum of max(1, len(activities))
RECURSIVE RowsDue(_, _)
RowsDue(units, k) ==
    IF k = 0 THEN 0
    ELSE RowsDue(units, k - 1) + Max(1, Len(units[k].teaching["attivita"]))

\* the rows of the output at the place of the k-th teaching
Block(k) ==
    IF Len(serialized) >= RowsDue(Units, k)
    THEN SubSeq(serialized, RowsDue(Units, k - 1) + 1, RowsDue(Units, k))
    ELSE << >>

\* the label of a teaching in the language of the run
LabelOf(teaching) == IF lang = "it" THEN teaching.label_it ELSE teaching.label_en

\* the rows of a teaching in the API order of its activities
RowsInApiOrder(u) ==
    IF u.teaching["attivita"] = << >>
    THEN <<PlaceholderRow(u.year, u.teaching)>>
    ELSE [i \in 1..Len(u.teaching["attivita"]) |->
             ActivityRow(u.year, u.teaching, u.teaching["attivita"][i])]

Range(seq) == { seq[i] : i \in 1..Len(seq) }

Occurrences(seq, x) == Cardinality({ i \in 1..Len(seq) : seq[i] = x })

SameRows(a, b) ==
    \A x \in Range(a) \cup Range(b) : Occurrences(a, x) = Occurrences(b, x)

WithSemester(rows, s) ==
    LET Has(r) == r.Semester = s IN SelectSeq(rows, Has)

\* C1: the flattener emits, for every study path, as many rows as the sum over
\* its teachings of max(1, number of activities), and every teaching has a row
\* of its own in the output.
C1_RowCount ==
    Flattened =>
        /\ Len(serialized) = RowsDue(Units, Len(Units))
        /\ \A k \in 1..Len(Units) :
              /\ Block(k) # << >>
              /\ \A i \in 1..Len(Block(k)) :
                    /\ Block(k)[i].Year = Units[k].year.anno
                    /\ Block(k)[i].Teaching = LabelOf(Units[k].teaching)

C1_Witness ==
    /\ Flattened
    /\ Len(Units) >= 3
    /\ \E k \in 1..Len(Units) : Units[k].teaching["attivita"] = << >>
    /\ \E k \in 1..Len(Units) : Len(Units[k].teaching["attivita"]) >= 2
    /\ Len(serialized) > Len(Units)

\* C2: a teaching without activities yields exactly one row: the placeholder,
\* with Semester "", CFU "", Name "N/A", Link "N/A", the year number of its year
\* block and its label in the language of the run.
C2_Placeholder ==
    Flattened =>
        \A k \in 1..Len(Units) :
            Units[k].teaching["attivita"] = << >> =>
                Block(k) = << [Year |-> Units[k].year.anno,
                               Teaching |-> LabelOf(Units[k].teaching),
                               Semester |-> "", CFU |-> "",
                               Name |-> "N/A", Link |-> "N/A"] >>

C2_Witness ==
    /\ Flattened
    /\ \E k \in 2..Len(Units) :
          /\ Units[k].teaching["attivita"] = << >>
          /\ Units[k].year.anno = 2
          /\ Units[k - 1].teaching["attivita"] # << >>
          /\ serialized[RowsDue(Units, k)].Name = "N/A"

\* C3: within the rows of one teaching the Semester values never decrease in
\* the lexicographic order of strings; an activity without semester has
\* Semester "" and sorts first.
C3_SemesterSorted ==
    Flattened =>
        \A k \in 1..Len(Units) :
            /\ Len(Block(k)) = Max(1, Len(Units[k].teaching["attivita"]))
            /\ \A i, j \in 1..Len(Block(k)) :
                  i < j => ~StrLess(Block(k)[j].Semester, Block(k)[i].Semester)
            /\ \A a \in Range(Units[k].teaching["attivita"]) :
                  "periodo_didattico_" \o lang \notin DOMAIN a
                      => Block(k)[1].Semester = ""

\* activities given as semester "2", "10", none come out as "", "10", "2"
C3_Witness ==
    /\ Flattened
    /\ \E k \in 1..Len(Units) :
          /\ Len(Units[k].teaching["attivita"]) = 3
          /\ RowsInApiOrder(Units[k])[1].Semester = "2"
          /\ RowsInApiOrder(Units[k])[2].Semester = "10"
          /\ RowsInApiOrder(Units[k])[3].Semester = ""
          /\ Block(k)[1].Semester = ""
          /\ Block(k)[2].Semester = "10"
          /\ Block(k)[3].Semester = "2"

\* C4: the output is the concatenation, in the API order of the year blocks and
\* of the teachings within each, of one block per teaching that holds exactly
\* the rows of that teaching.
C4_BlocksInApiOrder ==
    Flattened =>
        /\ Len(serialized) = RowsDue(Units, Len(Units))
        /\ \A k \in 1..Len(Units) : SameRows(Block(k), RowsInApiOrder(Units[k]))

\* a later teaching, in a later year, whose semester sorts before the earlier one's
C4_Witness ==
    /\ Flattened
    /\ \E k \in 2..Len(Units) :
          /\ Units[k - 1].year.anno < Units[k].year.anno
          /\ Units[k - 1].teaching["attivita"] # << >>
          /\ Units[k].teaching["attivita"] # << >>
          /\ StrLess(Block(k)[1].Semester, Block(k - 1)[1].Semester)
          /\ Block(k)[1] = ActivityRow(Units[k].year, Units[k].teaching,
                                       Units[k].teaching["attivita"][1])

\* C10: the sort within a teaching is stable: the rows of one teaching that have
\* the same Semester come out in the API order of their activities.
C10_StableSort ==
    Flattened =>
        \A k \in 1..Len(Units) :
            \A s \in DOMAIN CodePoints :
                WithSemester(Block(k), s) = WithSemester(RowsInApiOrder(Units[k]), s)

\* two different activities of semester "2" given after one another and before
\* an activity of semester "1"
C10_Witness ==
    /\ Flattened
    /\ \E k \in 1..Len(Units) :
          /\ Len(Block(k)) = 3
          /\ Len(WithSemester(Block(k), "2")) = 2
          /\ Block(k)[2] # Block(k)[3]
          /\ Block(k)[1].Semester = "1"
          /\ RowsInApiOrder(Units[k])[3].Semester = "1"

----------------------------------------------------------------------------
(* Claims about the run, checked under Spec *)

SelectSteps == {"select_group", "select_department", "select_course", "select_path"}

\* the user answers the prompt of a _select_with_des call
Answers == pc \in SelectSteps /\ prompt.choices # << >> /\ pc' # pc

Least(S) == CHOOSE i \in S : \A j \in S : i <= j

\* C5: the selector returns the option object, not the display string, and of
\* several options with the chosen display string the first in iteration order.
C5_FirstMatch ==
    [][Answers =>
          LET matching == { i \in 1..Len(options) :
                              options[i]["des_" \o lang] = choice' }
          IN /\ choice' \in Range(prompt.choices)
             /\ matching # { }
             /\ selected' = options[Least(matching)]]_vars

\* two degree types of one display string and different content: the first is returned
C5_Witness ==
    /\ pc = "select_department"
    /\ Len(gruppi) = 2
    /\ gruppi[1]["des_" \o lang] = gruppi[2]["des_" \o lang]
    /\ gruppi[1] # gruppi[2]
    /\ choice = gruppi[1]["des_" \o lang]
    /\ selected = gruppi[1]

\* C6: with an empty options list the selector fails with an EmptySelection
\* error before any prompt is presented.
C6_EmptySelectionBeforePrompt ==
    (pc \in SelectSteps /\ options = << >>) => ~prompt.shown

Stage ==
    [select_university |-> 0, fetch_corsi |-> 1, select_group |-> 2,
     select_department |-> 3, select_course |-> 4, fetch_corso |-> 5,
     select_path |-> 6, serialize |-> 7, save |-> 8, to_excel |-> 9,
     set_column |-> 10, exit |-> 11]

\* C7: a run is one pass through listing fetch, group, department of that
\* group, course of that department, detail fetch for the first sub-code of
\* that course, study path, flatten, write: every step is taken at most once,
\* only from the step before it, and none is retried or revisited.
C7_LinearPipeline ==
    [][/\ pc' # pc => /\ pc # "exit"
                      /\ pc' = "exit" \/ Stage[pc'] = Stage[pc] + 1
       /\ pc' = pc => UNCHANGED <<university, selv, datav, handle, file>>
       /\ (pc' # pc /\ pc' = "select_group") => options' = gruppi'
       /\ (pc' # pc /\ pc' = "select_department") =>
              /\ selected' \in Range(gruppi)
              /\ options' = selected'["subgroups"]
       /\ (pc' # pc /\ pc' = "select_course") =>
              /\ selected' \in Range(options)
              /\ options' = selected'["cds"]
       /\ (pc' # pc /\ pc' = "fetch_corso") =>
              /\ selected' \in Range(options)
              /\ cod' = selected'["cdsSub"][1]["cod"]
       /\ (pc' # pc /\ pc' = "serialize") => courses' \in Range(options)
       /\ (pc' # pc /\ pc' = "save") =>
              Len(serialized') = RowsDue(Units, Len(Units))]_vars

\* a run that went through every step and wrote rows
C7_Witness ==
    /\ pc = "exit"
    /\ exit_code = 0
    /\ file = "complete"
    /\ serialized # << >>
    /\ col = Len(COLUMNS)
    /\ cod \in Cods

\* C8: a fetch failure, an empty selection or a write failure ends the run at
\* once with a non-zero exit and a classified message (FetchError,
\* EmptySelection or WriteError); the exit is zero only after the file is written.
C8_ClassifiedFailure ==
    /\ exit_code # -1 => pc = "exit"
    /\ exit_code = 0 => file = "complete"
    /\ (pc = "exit" /\ exit_code # 0) =>
          /\ stderr # << >>
          /\ stderr[Len(stderr)] \in {"FetchError", "EmptySelection", "WriteError"}

\* C9: when the write fails at any point no partial file is left at the path,
\* and the file handle is closed on every exit path.
C9_AtomicWrite ==
    pc = "exit" =>
        /\ handle # "open"
        /\ exit_code # 0 => file \notin {"truncated", "partial"}

====
